---- MODULE Spec2Model ----
(***************************************************************************)
(* Terminal session engine of the website: src/src/composables/            *)
(* useTerminal.ts (useTerminal).  Strings are sequences of one-character   *)
(* strings so that trim, split, startsWith and sort are computed as the    *)
(* JavaScript built-ins compute them.                                      *)
(*                                                                         *)
(* Granularity: one step per synchronous run of engine code between two    *)
(* writes of messages.value.  While the engine or a synchronous handler    *)
(* is in the middle of such a run (Blocked) no other caller can act.       *)
(* The two Vue watchers (watchEffect on the history, watch on messages)    *)
(* are scheduler jobs: a trigger queues the job, FlushJobs runs it.        *)
(***************************************************************************)
EXTENDS Integers, Sequences, FiniteSets, TLC

\* ------------------------------------------------------------------ bounds
MaxMessages == 2
MaxHistory == 2
MaxCommands == 2

\* ----------------------------------------------------------------- strings
abc == <<"a", "b", "c">>
dfg == <<"d", "f", "g">>
zzz == <<"z", "z", "z">>
helloWorld == <<"h", "e", "l", "l", "o", " ", "w", "o", "r", "l", "d">>
NotFoundPrefix ==
  <<"s", "h", ":", " ", "c", "o", "m", "m", "a", "n", "d", " ",
    "n", "o", "t", " ", "f", "o", "u", "n", "d", ":", " ">>

\* UTF-16 code unit of the characters that occur in the model
CharCode ==
  ("\t" :> 9) @@ (" " :> 32) @@ (":" :> 58) @@ ("B" :> 66) @@ ("a" :> 97) @@ ("b" :> 98)
  @@ ("c" :> 99) @@ ("d" :> 100) @@ ("e" :> 101) @@ ("f" :> 102)
  @@ ("g" :> 103) @@ ("h" :> 104) @@ ("l" :> 108) @@ ("m" :> 109)
  @@ ("n" :> 110) @@ ("o" :> 111) @@ ("r" :> 114) @@ ("s" :> 115)
  @@ ("t" :> 116) @@ ("u" :> 117) @@ ("w" :> 119) @@ ("z" :> 122)

\* white space, as String.prototype.trim sees it
IsWhitespace(c) == c \in {" ", "\t"}

RECURSIVE trimStart(_)
trimStart(s) ==
  IF s = <<>> THEN <<>>
  ELSE IF IsWhitespace(Head(s)) THEN trimStart(Tail(s)) ELSE s

RECURSIVE trimEnd(_)
trimEnd(s) ==
  IF s = <<>> THEN <<>>
  ELSE IF IsWhitespace(s[Len(s)]) THEN trimEnd(SubSeq(s, 1, Len(s) - 1))
  ELSE s

\* variant: only leading white space is removed
trim_startOnly(s) == trimStart(s)

\* String.prototype.trim: white space is removed at both ends
trim(s) == trimEnd(trimStart(s))

\* String.prototype.split with a one-character separator
RECURSIVE split(_, _)
split(text, sep) ==
  IF \E i \in 1..Len(text) : text[i] = sep
  THEN LET i == CHOOSE k \in 1..Len(text) :
                  text[k] = sep /\ \A j \in 1..(k - 1) : text[j] # sep
       IN  <<SubSeq(text, 1, i - 1)>>
             \o split(SubSeq(text, i + 1, Len(text)), sep)
  ELSE <<text>>

\* String.prototype.startsWith
startsWith(s, p) == Len(p) <= Len(s) /\ SubSeq(s, 1, Len(p)) = p

\* order of Array.prototype.sort without a comparator: by code units
RECURSIVE LexLess(_, _)
LexLess(s, t) ==
  IF t = <<>> THEN FALSE
  ELSE IF s = <<>> THEN TRUE
  ELSE IF CharCode[Head(s)] # CharCode[Head(t)]
       THEN CharCode[Head(s)] < CharCode[Head(t)]
       ELSE LexLess(Tail(s), Tail(t))

RECURSIVE insertSorted(_, _)
insertSorted(sorted, x) ==
  IF sorted = <<>> THEN <<x>>
  ELSE IF LexLess(x, Head(sorted)) THEN <<x>> \o sorted
  ELSE <<Head(sorted)>> \o insertSorted(Tail(sorted), x)

\* variant: the candidates are left in registry order
sort_registryOrder(list) == list

RECURSIVE sort(_)
sort(list) ==
  IF list = <<>> THEN <<>>
  ELSE insertSorted(sort(SubSeq(list, 1, Len(list) - 1)), list[Len(list)])

\* ---------------------------------------------------------------- registry
\* props.commands, fixed for a session
VARIABLE commands

\* the definitions of the test suite and one more with a repeated name.
\* availableArguments is <<>> when the field is absent.
TestCommands ==
  << [name |-> abc, availableArguments |-> << <<"a">> >>],
     [name |-> dfg, availableArguments |-> <<>>],
     [name |-> abc, availableArguments |-> <<>>] >>

\* what the presentation layer types into the input element
InputLines ==
  { <<>>, abc, <<" ">> \o abc \o <<" ">>, abc \o <<" ", "a">>, zzz }

\* what a handler passes to context.appendOutput: a text and no options
\* (isHtmlOrDefault also takes the { isHtml: true } of commands.ts)
OutputTexts == { helloWorld }
IsHtmlOptions == { "undefined" }

\* parseInput
parseInput(text) ==
  LET parts == split(text, " ")
  IN  [command |-> Head(parts), args |-> Tail(parts)]

\* variant: the last definition with the name wins
findCommand_last(defs, command) ==
  IF \E i \in 1..Len(defs) : defs[i].name = command
  THEN CHOOSE i \in 1..Len(defs) :
         defs[i].name = command
         /\ \A j \in (i + 1)..Len(defs) : defs[j].name # command
  ELSE 0

\* Array.prototype.find over the definitions by name; 0 stands for undefined
findCommand(defs, command) ==
  IF \E i \in 1..Len(defs) : defs[i].name = command
  THEN CHOOSE i \in 1..Len(defs) :
         defs[i].name = command
         /\ \A j \in 1..(i - 1) : defs[j].name # command
  ELSE 0

\* candidates of one definition: its name, then "<name> <argument>" each
candidatesOf(command) ==
  <<command.name>>
    \o [k \in 1..Len(command.availableArguments) |->
          command.name \o <<" ">> \o command.availableArguments[k]]

RECURSIVE flatMap(_)
flatMap(defs) ==
  IF defs = <<>> THEN <<>>
  ELSE candidatesOf(Head(defs)) \o flatMap(Tail(defs))

suggestions == sort(flatMap(commands))

\* the computed suggestion for an input text
suggestion(input) ==
  LET text == trim(input)
      sorted == suggestions
  IN  IF text = <<>> THEN <<>>
      ELSE IF \E i \in 1..Len(sorted) : startsWith(sorted[i], text)
      THEN sorted[CHOOSE i \in 1..Len(sorted) :
             startsWith(sorted[i], text)
             /\ \A j \in 1..(i - 1) : ~startsWith(sorted[j], text)]
      ELSE <<>>

\* ------------------------------------------------------------------- state
VARIABLES
  inputText,       \* ref inputText
  messages,        \* ref messages
  historyEntries,  \* ref historyEntries, most recent first
  historyIndex,    \* ref historyIndex, -1 = not browsing
  isRunning,       \* ref isRunning
  isHalted,        \* ref isHalted
  execInput,       \* execute(): the local `input` between echo and dispatch
  execPc,          \* execute(): "idle", or "dispatch" after the history update
  handlers,        \* handler invocations that have not been released yet
  jobs,            \* queued watcher jobs of the scheduler
  lastOp           \* the operation that made the last step

vars ==
  <<commands, inputText, messages, historyEntries, historyIndex, isRunning, isHalted,
    execInput, execPc, handlers, jobs, lastOp>>


\* ------------------------------------------------------------------ engine
\* the session state that useTerminal sets up
InitSession ==
  /\ inputText = <<>>
  /\ messages = <<>>
  /\ historyEntries = <<>>
  /\ historyIndex = -1
  /\ isRunning = FALSE
  /\ isHalted = FALSE
  /\ execInput = <<>>
  /\ execPc = "idle"
  /\ handlers = <<>>
  /\ jobs = {}
  /\ lastOp = "init"

Init ==
  /\ commands = TestCommands
  /\ InitSession

\* variant: the message is put in front
appendMessage_prepend(list, text, type, isHtml) ==
  <<[type |-> type, text |-> text, isHtml |-> isHtml]>> \o list

\* appendMessage: a new list with the message at the end
appendMessage(list, text, type, isHtml) ==
  Append(list, [type |-> type, text |-> text, isHtml |-> isHtml])

\* variant: the index is taken as 1-based
entryOrEmpty_oneBased(entries, i) ==
  IF i >= 1 /\ i <= Len(entries) THEN entries[i] ELSE <<>>

\* historyEntries.value[i] ?? "" with the JavaScript index i (0-based)
entryOrEmpty(entries, i) ==
  IF i >= 0 /\ i < Len(entries) THEN entries[i + 1] ELSE <<>>

\* execute() is between echo and dispatch, or a handler is in the run that
\* execute() started by calling it: the single thread is busy and no other
\* caller gets a turn
Blocked ==
  \/ execPc # "idle"
  \/ \E i \in 1..Len(handlers) : handlers[i].phase = "sync"

\* setInput(input), and v-model on the input element
setInput(input) ==
  /\ ~Blocked
  /\ inputText' = input
  /\ lastOp' = "setInput"
  /\ UNCHANGED commands
  /\ UNCHANGED <<messages, historyEntries, historyIndex, isRunning, isHalted,
                 execInput, execPc, handlers, jobs>>

\* variant: the suggestion is taken even when it is empty
autocompleted_unconditional(input) == suggestion(input)

\* if (suggestion.value) inputText.value = suggestion.value
autocompleted(input) ==
  LET found == suggestion(input)
  IN  IF found # <<>> THEN found ELSE input

autocompleteSuggestion ==
  /\ ~Blocked
  /\ inputText' = autocompleted(inputText)
  /\ lastOp' = "autocompleteSuggestion"
  /\ UNCHANGED commands
  /\ UNCHANGED <<messages, historyEntries, historyIndex, isRunning, isHalted,
                 execInput, execPc, handlers, jobs>>

\* variant: off by one at the oldest entry
canNavigateToPrevious_offByOne(index, entries) == index < Len(entries)

\* the condition under which navigateToPreviousEntry moves the cursor
canNavigateToPrevious(index, entries) == index < Len(entries) - 1

\* variant: the input is overwritten inside the call
navigateToPreviousEntry_synchronous ==
  /\ ~Blocked
  /\ IF canNavigateToPrevious(historyIndex, historyEntries)
     THEN /\ historyIndex' = historyIndex + 1
          /\ inputText' = entryOrEmpty(historyEntries, historyIndex + 1)
     ELSE UNCHANGED <<historyIndex, inputText>>
  /\ lastOp' = "navigateToPreviousEntry"
  /\ UNCHANGED commands
  /\ UNCHANGED <<messages, historyEntries, isRunning, isHalted,
                 execInput, execPc, handlers, jobs>>

navigateToPreviousEntry ==
  /\ ~Blocked
  /\ IF canNavigateToPrevious(historyIndex, historyEntries)
     THEN /\ historyIndex' = historyIndex + 1
          /\ jobs' = jobs \cup {"historyEffect"}
     ELSE UNCHANGED <<historyIndex, jobs>>
  /\ lastOp' = "navigateToPreviousEntry"
  /\ UNCHANGED commands
  /\ UNCHANGED <<inputText, messages, historyEntries, isRunning, isHalted,
                 execInput, execPc, handlers>>

\* variant: the cursor never returns to "no entry"
canNavigateToNext_offByOne(index) == index > 0

\* the condition under which navigateToNextEntry moves the cursor
canNavigateToNext(index) == index > -1

navigateToNextEntry ==
  /\ ~Blocked
  /\ IF canNavigateToNext(historyIndex)
     THEN /\ historyIndex' = historyIndex - 1
          /\ jobs' = jobs \cup {"historyEffect"}
     ELSE UNCHANGED <<historyIndex, jobs>>
  /\ lastOp' = "navigateToNextEntry"
  /\ UNCHANGED commands
  /\ UNCHANGED <<inputText, messages, historyEntries, isRunning, isHalted,
                 execInput, execPc, handlers>>

\* variant: the empty prompt is appended whether or not a command runs
haltAppendsPrompt_always(running) == TRUE

\* if (!isRunning.value): the empty prompt is appended at an idle prompt
haltAppendsPrompt(running) == ~running

\* variant: the halt releases the session itself
haltExecution_releases ==
  /\ ~Blocked
  /\ ~haltAppendsPrompt(isRunning) \/ Len(messages) < MaxMessages
  /\ isHalted' = TRUE
  /\ isRunning' = FALSE
  /\ IF haltAppendsPrompt(isRunning)
     THEN /\ messages' = appendMessage(messages, <<>>, "input", FALSE)
          /\ jobs' = jobs \cup {"messagesWatch"}
     ELSE UNCHANGED <<messages, jobs>>
  /\ lastOp' = "haltExecution"
  /\ UNCHANGED commands
  /\ UNCHANGED <<inputText, historyEntries, historyIndex,
                 execInput, execPc, handlers>>

haltExecution ==
  /\ ~Blocked
  /\ ~haltAppendsPrompt(isRunning) \/ Len(messages) < MaxMessages
  /\ isHalted' = TRUE
  /\ IF haltAppendsPrompt(isRunning)
     THEN /\ messages' = appendMessage(messages, <<>>, "input", FALSE)
          /\ jobs' = jobs \cup {"messagesWatch"}
     ELSE UNCHANGED <<messages, jobs>>
  /\ lastOp' = "haltExecution"
  /\ UNCHANGED commands
  /\ UNCHANGED <<inputText, historyEntries, historyIndex, isRunning,
                 execInput, execPc, handlers>>

\* the scheduler flushes the queued watcher jobs: the history effect
\* overwrites the input, the messages watcher calls props.onOutputAppended
FlushJobs ==
  /\ ~Blocked
  /\ jobs # {}
  /\ inputText' = IF "historyEffect" \in jobs
                  THEN entryOrEmpty(historyEntries, historyIndex)
                  ELSE inputText
  /\ jobs' = {}
  /\ lastOp' = "flushJobs"
  /\ UNCHANGED commands
  /\ UNCHANGED <<messages, historyEntries, historyIndex, isRunning, isHalted,
                 execInput, execPc, handlers>>


\* ----------------------------------------------------------------- execute
\* variant: no reentrancy guard
executeIsDropped_never(running) == FALSE

\* execute(): the reentrancy guard
executeIsDropped(running) == running

\* variant: the new entry goes to the end of the list
historyAfterSubmit_atEnd(entries, input) ==
  IF entries = <<>> \/ input # entries[1]
  THEN entries \o <<input>>
  ELSE entries

\* variant: no test for a repeated entry
historyAfterSubmit_always(entries, input) == <<input>> \o entries

\* execute(): the history after a submission of a non-empty trimmed input;
\* historyEntries.value[0] is undefined for an empty history
historyAfterSubmit(entries, input) ==
  IF entries = <<>> \/ input # entries[1]
  THEN <<input>> \o entries
  ELSE entries

\* variant: the guard sits after the echo and the input reset
executeDropped_afterEcho ==
  /\ messages' = Append(messages,
                   [type |-> "input", text |-> trim(inputText),
                    isHtml |-> FALSE])
  /\ inputText' = <<>>
  /\ jobs' = jobs \cup {"messagesWatch"}
  /\ lastOp' = "executeDropped"
  /\ UNCHANGED commands
  /\ UNCHANGED <<historyEntries, historyIndex, isRunning, isHalted,
                 execInput, execPc, handlers>>

\* execute() called while a command is running: the early return
executeDropped ==
  /\ lastOp' = "executeDropped"
  /\ UNCHANGED commands
  /\ UNCHANGED <<inputText, messages, historyEntries, historyIndex,
                 isRunning, isHalted, execInput, execPc, handlers, jobs>>

\* the number of messages a submission of the trimmed input appends before
\* a handler runs: the echo, and the report of an unknown command
appendsOf(input) ==
  IF input # <<>> /\ findCommand(commands, parseInput(input).command) = 0
  THEN 2 ELSE 1

\* execute() past the guard, up to the dispatch: echo, input reset,
\* history update
executeAccepted ==
  LET input == trim(inputText) IN
  /\ Len(messages) + appendsOf(input) <= MaxMessages
  /\ input # <<>> =>
       Len(historyAfterSubmit(historyEntries, input)) <= MaxHistory
  /\ messages' = appendMessage(messages, input, "input", FALSE)
  /\ inputText' = <<>>
  /\ IF input # <<>>
     THEN /\ historyEntries' = historyAfterSubmit(historyEntries, input)
          /\ historyIndex' = -1
          /\ execPc' = "dispatch"
          /\ execInput' = input
          /\ jobs' = jobs \cup {"messagesWatch"}
               \cup (IF historyEntries' # historyEntries \/ historyIndex # -1
                     THEN {"historyEffect"} ELSE {})
     ELSE /\ jobs' = jobs \cup {"messagesWatch"}
          /\ UNCHANGED <<historyEntries, historyIndex, execPc, execInput>>
  /\ lastOp' = "execute"
  /\ UNCHANGED commands
  /\ UNCHANGED <<isRunning, isHalted, handlers>>

execute ==
  /\ ~Blocked
  /\ IF executeIsDropped(isRunning) THEN executeDropped ELSE executeAccepted

\* variant: the command token is left out of the report
notFoundText_noToken(command) == NotFoundPrefix

\* the text reported for an unknown command
notFoundText(command) == NotFoundPrefix \o command

\* variant: the default is true
isHtmlOrDefault_true(option) == option # "false"

\* context.appendOutput: options?.isHtml ?? false
isHtmlOrDefault(option) == option = "true"

\* variant: the flag raised before the dispatch is left for the handler
haltedAtDispatch_kept(halted) == halted

\* isHalted.value = false, right before the handler is invoked
haltedAtDispatch(halted) == FALSE

\* execute() from parseInput on: look the command up, report an unknown
\* command or mark the session running and invoke the handler, which
\* starts to run synchronously inside execute()
executeDispatch ==
  /\ execPc = "dispatch"
  /\ LET parsed == parseInput(execInput)
         found == findCommand(commands, parsed.command)
     IN  IF found = 0
         THEN /\ messages' = appendMessage(messages,
                               notFoundText(parsed.command),
                               "output", isHtmlOrDefault("false"))
              /\ jobs' = jobs \cup {"messagesWatch"}
              /\ lastOp' = "commandNotFound"
              /\ UNCHANGED commands
              /\ UNCHANGED <<isRunning, isHalted, handlers>>
         ELSE /\ isRunning' = TRUE
              /\ isHalted' = haltedAtDispatch(isHalted)
              /\ handlers' = Append(handlers,
                   [def |-> found, args |-> parsed.args, phase |-> "sync",
                    echoAt |-> Len(messages), calls |-> <<>>,
                    cleared |-> FALSE])
              /\ lastOp' = "dispatch"
              /\ UNCHANGED commands
              /\ UNCHANGED <<messages, jobs>>
  /\ execPc' = "idle"
  /\ execInput' = <<>>
  /\ UNCHANGED <<inputText, historyEntries, historyIndex>>

\* ---------------------------------------------------------------- handlers
\* A handler invocation is in phase "sync" while it runs in the call that
\* execute() made, "async" once it has awaited something of its own (it
\* then continues in later turns of the event loop), and "returned" once
\* it has returned or its promise has resolved and execute() has not
\* resumed after its await yet.  calls, echoAt and cleared record what the
\* invocation did to the transcript.

\* handler invocation i gets a turn: it is the one running synchronously,
\* or nothing is
HandlerTurn(i) ==
  /\ execPc = "idle"
  /\ \A j \in (1..Len(handlers)) \ {i} : handlers[j].phase # "sync"

\* the handler awaits: the synchronous run that execute() started ends
handlerAwait(i) ==
  /\ HandlerTurn(i)
  /\ handlers[i].phase = "sync"
  /\ handlers' = [handlers EXCEPT ![i].phase = "async"]
  /\ lastOp' = "handlerAwait"
  /\ UNCHANGED commands
  /\ UNCHANGED <<inputText, messages, historyEntries, historyIndex,
                 isRunning, isHalted, execInput, execPc, jobs>>

\* the handler calls context.appendOutput(text, options)
appendOutput(i, text, option) ==
  /\ HandlerTurn(i)
  /\ handlers[i].phase \in {"sync", "async"}
  /\ Len(messages) < MaxMessages
  /\ messages' = appendMessage(messages, text, "output",
                               isHtmlOrDefault(option))
  /\ jobs' = jobs \cup {"messagesWatch"}
  /\ handlers' = [handlers EXCEPT ![i].calls =
                    Append(@, [text |-> text, option |-> option])]
  /\ lastOp' = "appendOutput"
  /\ UNCHANGED commands
  /\ UNCHANGED <<inputText, historyEntries, historyIndex, isRunning,
                 isHalted, execInput, execPc>>

\* variant: the list is emptied in place, which the watcher does not see
clearMessages_inPlace(i) ==
  /\ HandlerTurn(i)
  /\ handlers[i].phase \in {"sync", "async"}
  /\ messages' = <<>>
  /\ handlers' = [handlers EXCEPT ![i].calls = <<>>, ![i].echoAt = 0,
                                  ![i].cleared = TRUE]
  /\ lastOp' = "clearMessages"
  /\ UNCHANGED commands
  /\ UNCHANGED <<inputText, historyEntries, historyIndex, isRunning,
                 isHalted, execInput, execPc, jobs>>

\* the handler calls context.clearMessages()
clearMessages(i) ==
  /\ HandlerTurn(i)
  /\ handlers[i].phase \in {"sync", "async"}
  /\ messages' = <<>>
  /\ jobs' = jobs \cup {"messagesWatch"}
  /\ handlers' = [handlers EXCEPT ![i].calls = <<>>, ![i].echoAt = 0,
                                  ![i].cleared = TRUE]
  /\ lastOp' = "clearMessages"
  /\ UNCHANGED commands
  /\ UNCHANGED <<inputText, historyEntries, historyIndex, isRunning,
                 isHalted, execInput, execPc>>

\* the handler returns, or the promise it returned resolves: execute()
\* resumes after its await in a later microtask
handlerReturn(i) ==
  /\ HandlerTurn(i)
  /\ handlers[i].phase \in {"sync", "async"}
  /\ handlers' = [handlers EXCEPT ![i].phase = "returned"]
  /\ lastOp' = "handlerReturn"
  /\ UNCHANGED commands
  /\ UNCHANGED <<inputText, messages, historyEntries, historyIndex,
                 isRunning, isHalted, execInput, execPc, jobs>>

\* variant: the release follows the await without a finally block
finallyRuns_onReturnOnly(outcome) == outcome = "returned"

\* try/finally of execute(): the finally block runs whether the handler
\* returned or threw
finallyRuns(outcome) == outcome \in {"returned", "thrown"}

\* the invocations in flight without invocation i
withoutHandler(i) ==
  SubSeq(handlers, 1, i - 1) \o SubSeq(handlers, i + 1, Len(handlers))

\* the handler throws, or the promise it returned rejects: execute()
\* unwinds through its finally block
handlerThrow(i) ==
  /\ HandlerTurn(i)
  /\ handlers[i].phase \in {"sync", "async"}
  /\ isRunning' = IF finallyRuns("thrown") THEN FALSE ELSE isRunning
  /\ handlers' = withoutHandler(i)
  /\ lastOp' = "handlerThrow"
  /\ UNCHANGED commands
  /\ UNCHANGED <<inputText, messages, historyEntries, historyIndex,
                 isHalted, execInput, execPc, jobs>>

\* variant: the finally block lowers the halt flag as well
executeFinally_resetsHalted(i) ==
  /\ HandlerTurn(i)
  /\ handlers[i].phase = "returned"
  /\ isRunning' = IF finallyRuns("returned") THEN FALSE ELSE isRunning
  /\ isHalted' = FALSE
  /\ handlers' = withoutHandler(i)
  /\ lastOp' = "executeFinally"
  /\ UNCHANGED commands
  /\ UNCHANGED <<inputText, messages, historyEntries, historyIndex,
                 execInput, execPc, jobs>>

\* execute() resumes after the await of a handler that returned and
\* leaves through its finally block
executeFinally(i) ==
  /\ HandlerTurn(i)
  /\ handlers[i].phase = "returned"
  /\ isRunning' = IF finallyRuns("returned") THEN FALSE ELSE isRunning
  /\ handlers' = withoutHandler(i)
  /\ lastOp' = "executeFinally"
  /\ UNCHANGED commands
  /\ UNCHANGED <<inputText, messages, historyEntries, historyIndex,
                 isHalted, execInput, execPc, jobs>>

\* ----------------------------------------------------------- specification
Next ==
  \/ \E input \in InputLines : setInput(input)
  \/ autocompleteSuggestion
  \/ navigateToPreviousEntry
  \/ navigateToNextEntry
  \/ haltExecution
  \/ execute
  \/ executeDispatch
  \/ \E i \in 1..Len(handlers) : handlerAwait(i)
  \/ \E i \in 1..Len(handlers) :
       \E text \in OutputTexts, option \in IsHtmlOptions :
         appendOutput(i, text, option)
  \/ \E i \in 1..Len(handlers) : clearMessages(i)
  \/ \E i \in 1..Len(handlers) : handlerReturn(i)
  \/ \E i \in 1..Len(handlers) : handlerThrow(i)
  \/ \E i \in 1..Len(handlers) : executeFinally(i)
  \/ FlushJobs

Spec == Init /\ [][Next]_vars

TypeOK ==
  /\ historyIndex \in -1..MaxHistory
  /\ isRunning \in BOOLEAN
  /\ isHalted \in BOOLEAN
  /\ execPc \in {"idle", "dispatch"}
  /\ jobs \subseteq {"historyEffect", "messagesWatch"}
  /\ Len(messages) <= MaxMessages


\* ------------------------------------------------------------------ claims
\* the step is a call of execute()
ExecuteCalled == lastOp' \in {"execute", "executeDropped"}

\* the step is the completion of a handler invocation
HandlerCompleted == lastOp' \in {"executeFinally", "handlerThrow"}

\* the command token of a trimmed line names a registered definition
Registered(token) == \E i \in 1..Len(commands) : commands[i].name = token

\* t is s without the white space at its two ends
IsTrimOf(t, s) ==
  \E i \in 1..(Len(s) + 1) : \E j \in 0..Len(s) :
    /\ t = SubSeq(s, i, j)
    /\ \A k \in 1..(i - 1) : IsWhitespace(s[k])
    /\ \A k \in (j + 1)..Len(s) : IsWhitespace(s[k])
    /\ t # <<>> => ~IsWhitespace(t[1]) /\ ~IsWhitespace(t[Len(t)])

\* the trimmed form of s
Trimmed(s) ==
  CHOOSE t \in {SubSeq(s, i, j) : i \in 1..(Len(s) + 1), j \in 0..Len(s)} :
    IsTrimOf(t, s)

\* the command token of a line and whether it names a definition
TokenOf(line) == parseInput(line).command
TokenRegistered(line) == line # <<>> /\ Registered(TokenOf(line))

\* the first definition, in registry order, with the given name
FirstDefinitionNamed(token) ==
  CHOOSE i \in 1..Len(commands) :
    commands[i].name = token /\ \A j \in 1..(i - 1) : commands[j].name # token

\* the step is an execute() that passes the guard
ExecuteAcceptedCall == ~isRunning /\ ExecuteCalled

InputMessage(text) == [type |-> "input", text |-> text, isHtml |-> FALSE]
OutputMessage(text, isHtml) ==
  [type |-> "output", text |-> text, isHtml |-> isHtml]

\* C1: single-flight.  In every reachable state at most one handler
\* invocation is in flight, and a call of execute() made while isRunning
\* is true invokes no handler (it does not even reach the dispatch).
C1_SingleFlight ==
  /\ [](Len(handlers) <= 1)
  /\ [][(isRunning /\ ExecuteCalled) =>
          (handlers' = handlers /\ execPc' = "idle")]_vars
  /\ [][Len(handlers') > Len(handlers) => ~isRunning]_vars

C1_Witness ==
  lastOp = "executeDropped" /\ isRunning /\ Len(handlers) = 1

\* C2: a call of execute() made while a handler is in flight is dropped:
\* it changes none of inputText, messages, historyEntries, historyIndex,
\* isRunning, isHalted (nor queues anything), and the completion of the
\* handler in flight dispatches nothing: no echo, no handler, no history.
C2_DroppedNotQueued ==
  /\ [][(isRunning /\ ExecuteCalled) =>
          UNCHANGED <<inputText, messages, historyEntries, historyIndex,
                      isRunning, isHalted, execInput, execPc, handlers,
                      jobs>>]_vars
  /\ [][HandlerCompleted =>
          (/\ Len(handlers') = Len(handlers) - 1
           /\ execPc' = "idle"
           /\ UNCHANGED <<inputText, messages, historyEntries,
                          historyIndex, execInput>>)]_vars

\* a line was submitted while a handler that has returned since was in
\* flight; the line is still in the input
C2_Witness ==
  /\ lastOp = "executeDropped"
  /\ inputText = abc
  /\ Len(handlers) = 1
  /\ handlers[1].phase = "returned"

\* C3: guaranteed release.  When a handler invocation completes, by return
\* or by throw, isRunning is false afterwards and neither the fault nor
\* the completion adds a message; an execute() of a registered command
\* that follows is accepted and reaches the dispatch, which invokes the
\* handler.
C3_GuaranteedRelease ==
  /\ [][HandlerCompleted => (isRunning' = FALSE /\ messages' = messages)]_vars
  /\ [][(/\ lastOp \in {"executeFinally", "handlerThrow"}
         /\ ExecuteCalled
         /\ TokenRegistered(Trimmed(inputText)))
        => (lastOp' = "execute" /\ execPc' = "dispatch")]_vars
  /\ [][(execPc = "dispatch" /\ TokenRegistered(execInput))
        => (Len(handlers') = Len(handlers) + 1 /\ isRunning')]_vars

C3_Witness ==
  lastOp = "handlerThrow" /\ ~isRunning /\ handlers = <<>>


\* C4: an accepted execute() of a non-empty trimmed line whose command
\* token names a registered definition invokes exactly one handler, once:
\* that of the first definition with that name in registry order, with
\* the argument tokens of the line.  No other step invokes a handler, and
\* an accepted execute() of an empty trimmed line invokes none.
C4_FirstMatchInvokedOnce ==
  /\ [][(ExecuteAcceptedCall /\ Trimmed(inputText) # <<>>) =>
          (/\ execPc' = "dispatch"
           /\ execInput' = Trimmed(inputText)
           /\ handlers' = handlers)]_vars
  /\ [][(execPc = "dispatch" /\ TokenRegistered(execInput)) =>
          (/\ execPc' = "idle"
           /\ handlers' = Append(handlers, handlers'[Len(handlers')])
           /\ handlers'[Len(handlers')].def
                = FirstDefinitionNamed(TokenOf(execInput))
           /\ handlers'[Len(handlers')].args = parseInput(execInput).args
           /\ handlers'[Len(handlers')].phase = "sync")]_vars
  /\ [][Len(handlers') > Len(handlers) =>
          (execPc = "dispatch" /\ TokenRegistered(execInput))]_vars
  /\ [][(ExecuteAcceptedCall /\ Trimmed(inputText) = <<>>) =>
          (execPc' = "idle" /\ handlers' = handlers)]_vars

\* "abc a" was dispatched to the first of the two definitions named abc
C4_Witness ==
  /\ lastOp = "dispatch"
  /\ Len(handlers) = 1
  /\ handlers[1].def = 1
  /\ handlers[1].args = << <<"a">> >>
  /\ commands[3].name = commands[1].name

\* C5: an accepted execute() of a non-empty trimmed line whose command
\* token names no definition appends, directly after the input echo,
\* exactly one message: the output "sh: command not found: <token>" with
\* isHtml false.  No handler is invoked, isRunning is false before,
\* between and after the two steps of that execution, and isHalted keeps
\* its value.
C5_CommandNotFound ==
  /\ [][ExecuteAcceptedCall =>
          (~isRunning' /\ isHalted' = isHalted /\ handlers' = handlers)]_vars
  /\ [][(execPc = "dispatch" /\ ~TokenRegistered(execInput)) =>
          (/\ messages[Len(messages)] = InputMessage(execInput)
           /\ messages' = Append(messages,
                OutputMessage(NotFoundPrefix \o TokenOf(execInput), FALSE))
           /\ execPc' = "idle"
           /\ handlers' = handlers
           /\ ~isRunning /\ ~isRunning'
           /\ isHalted' = isHalted)]_vars

\* "zzz" was reported as unknown while the halt flag of an earlier run
\* was still up
C5_Witness ==
  /\ lastOp = "commandNotFound"
  /\ isHalted
  /\ ~isRunning
  /\ messages = <<InputMessage(zzz), OutputMessage(NotFoundPrefix \o zzz, FALSE)>>

\* C6: every accepted execute() appends exactly one message, the input
\* message with the trimmed inputText and isHtml false, also when the
\* trimmed text is empty, and sets inputText to the empty string; it does
\* so before any handler runs: the step invokes no handler, and whenever
\* a handler is invoked inputText is empty.
C6_EchoAndReset ==
  /\ [][ExecuteAcceptedCall =>
          (/\ messages' = Append(messages, InputMessage(Trimmed(inputText)))
           /\ inputText' = <<>>
           /\ handlers' = handlers)]_vars
  /\ [][Len(handlers') > Len(handlers) =>
          (inputText = <<>> /\ inputText' = <<>>)]_vars

\* an empty line and then a line with white space around it were echoed
C6_Witness ==
  /\ lastOp = "execute"
  /\ messages = <<InputMessage(<<>>), InputMessage(abc)>>
  /\ inputText = <<>>
  /\ execPc = "dispatch"

\* C7: the transcript is append-only.  Every step leaves messages
\* unchanged, or extends it by exactly one message at the end, or is a
\* clearMessages() call that replaces it with the empty sequence.
C7_AppendOnly ==
  [][\/ messages' = messages
     \/ /\ Len(messages') = Len(messages) + 1
        /\ SubSeq(messages', 1, Len(messages)) = messages
     \/ lastOp' = "clearMessages" /\ messages' = <<>>]_vars

\* two different messages are in the transcript
C7_Witness ==
  /\ Len(messages) >= 2
  /\ messages[1] # messages[2]
  /\ lastOp \in {"appendOutput", "commandNotFound", "execute"}

\* C8: for a dispatched command the input echo is in the transcript when
\* the handler is invoked, as the last message; from then on, as long as
\* the handler has not cleared the transcript, the messages after the
\* echo are exactly the handler's appendOutput calls in call order, each
\* an output message whose isHtml is the option given, false by default
\* (after a clear: the calls made since the clear).  In particular
\* appendOutput("hello world") on input "abc" from an empty transcript
\* gives [input "abc", output "hello world"].
C8_OutputAfterEchoInv ==
  \A i \in 1..Len(handlers) :
    LET h == handlers[i] IN
    /\ Len(messages) = h.echoAt + Len(h.calls)
    /\ ~h.cleared => (h.echoAt >= 1 /\ messages[h.echoAt].type = "input"
                      /\ messages[h.echoAt].isHtml = FALSE)
    /\ \A k \in 1..Len(h.calls) :
         messages[h.echoAt + k]
           = OutputMessage(h.calls[k].text, h.calls[k].option = "true")
    /\ (/\ ~h.cleared /\ h.echoAt = 1 /\ messages[1].text = abc
        /\ h.calls = <<[text |-> helloWorld, option |-> "undefined"]>>)
       => messages = <<InputMessage(abc), OutputMessage(helloWorld, FALSE)>>

C9_HistoryInv ==
  /\ \A i \in 1..Len(historyEntries) :
       /\ historyEntries[i] # <<>>
       /\ ~IsWhitespace(historyEntries[i][1])
       /\ ~IsWhitespace(historyEntries[i][Len(historyEntries[i])])
  /\ \A i \in 1..(Len(historyEntries) - 1) :
       historyEntries[i] # historyEntries[i + 1]

C9_HistoryNoAdjacentDuplicates ==
  /\ []C9_HistoryInv
  /\ [][(/\ ExecuteAcceptedCall
         /\ historyEntries # <<>>
         /\ Trimmed(inputText) = historyEntries[1])
        => historyEntries' = historyEntries]_vars

\* "abc" was submitted twice in a row, the second time with white space
\* around it, and is in the history once
C9_Witness ==
  /\ lastOp = "execute"
  /\ messages = <<InputMessage(abc), InputMessage(abc)>>
  /\ historyEntries = <<abc>>

\* C10: in every reachable state historyIndex is an integer from -1 to
\* Len(historyEntries) - 1.
C10_HistoryIndexInRange ==
  /\ historyIndex \in Int
  /\ -1 <= historyIndex
  /\ historyIndex <= Len(historyEntries) - 1

\* the cursor is at the oldest of two entries
C10_Witness ==
  /\ lastOp = "navigateToPreviousEntry"
  /\ Len(historyEntries) = 2
  /\ historyIndex = 1

\* the step is a call of one of the two navigation operations
PreviousCalled == lastOp' = "navigateToPreviousEntry"
NextCalled == lastOp' = "navigateToNextEntry"

\* C11: clamped navigation.  navigateToPreviousEntry moves historyIndex
\* from i to i+1 exactly when i < Len(historyEntries) - 1 and
\* navigateToNextEntry moves it from i to i-1 exactly when i > -1; at the
\* oldest entry (or with an empty history) previous changes nothing, and
\* at -1 next changes nothing: neither the cursor nor the input nor
\* anything queued, so the input keeps showing what it showed.
C11_ClampedNavigation ==
  /\ [][PreviousCalled =>
          IF historyIndex < Len(historyEntries) - 1
          THEN historyIndex' = historyIndex + 1
          ELSE UNCHANGED <<historyIndex, inputText, jobs>>]_vars
  /\ [][NextCalled =>
          IF historyIndex > -1
          THEN historyIndex' = historyIndex - 1
          ELSE UNCHANGED <<historyIndex, inputText, jobs>>]_vars
  /\ [][(PreviousCalled \/ NextCalled) =>
          UNCHANGED <<historyEntries, messages, isRunning, isHalted>>]_vars

\* previous was called with the oldest of two entries shown: nothing
\* was queued and the input still shows that entry
C11_Witness ==
  /\ lastOp = "navigateToPreviousEntry"
  /\ Len(historyEntries) = 2
  /\ historyIndex = 1
  /\ jobs = {}
  /\ inputText = historyEntries[2]

\* the entry the cursor points at, the empty string when not browsing
ShownEntry(entries, index) ==
  IF index = -1 THEN <<>> ELSE entries[index + 1]

\* the step runs the history effect
HistoryEffectRuns == lastOp' = "flushJobs" /\ "historyEffect" \in jobs

\* C12: a navigation call that changes historyIndex queues the history
\* effect, the effect stays queued until the scheduler runs it, and when it
\* runs inputText becomes historyEntries[historyIndex], or "" at -1,
\* whatever setInput had put there.  So with the lines l1, l2 submitted in
\* that order, previous calls show l2 then l1 and next calls show l2 and
\* then "".
C12_NavigationOverwritesInput ==
  /\ [][((PreviousCalled \/ NextCalled) /\ historyIndex' # historyIndex)
        => "historyEffect" \in jobs']_vars
  /\ [][("historyEffect" \in jobs /\ lastOp' # "flushJobs")
        => "historyEffect" \in jobs']_vars
  /\ [][HistoryEffectRuns =>
          (/\ inputText' = ShownEntry(historyEntries, historyIndex)
           /\ "historyEffect" \notin jobs'
           /\ UNCHANGED <<historyEntries, historyIndex>>)]_vars
  /\ [][(HistoryEffectRuns /\ Len(historyEntries) = 2) =>
          inputText' = (CASE historyIndex = -1 -> <<>>
                          [] historyIndex = 0 -> historyEntries[1]
                          [] historyIndex = 1 -> historyEntries[2])]_vars

\* after two submissions and a typed line, the second previous call has
\* put the first submission into the input
C12_Witness ==
  /\ lastOp = "flushJobs"
  /\ historyEntries = <<abc \o <<" ", "a">>, abc>>
  /\ historyIndex = 1
  /\ inputText = abc

HaltCalled == lastOp' = "haltExecution"

\* C14: haltExecution() always sets isHalted; with no command running it
\* also appends exactly one input message with empty text and isHtml false;
\* with a command running it appends nothing; in both cases isRunning,
\* inputText, historyEntries and historyIndex are unchanged.
C14_HaltExecution ==
  /\ [][HaltCalled => isHalted' = TRUE]_vars
  /\ [][(HaltCalled /\ ~isRunning) =>
          (/\ Len(messages') = Len(messages) + 1
           /\ SubSeq(messages', 1, Len(messages)) = messages
           /\ messages'[Len(messages')] = InputMessage(<<>>))]_vars
  /\ [][(HaltCalled /\ isRunning) => messages' = messages]_vars
  /\ [][HaltCalled =>
          UNCHANGED <<isRunning, inputText, historyEntries, historyIndex>>]_vars

\* a halt raised while a handler is pending, after one at an idle prompt
C14_Witness ==
  /\ lastOp = "haltExecution" /\ isRunning /\ isHalted
  /\ Len(messages) = 2 /\ messages[1] = InputMessage(<<>>)

\* the step invokes a handler
HandlerStarts == Len(handlers') > Len(handlers)

\* C15: isHalted is false at the moment every handler invocation starts,
\* so a halt raised before the dispatch is never seen by the next handler;
\* and isHalted turns true only in a haltExecution() call, so a handler
\* that sees it true sees a halt raised after its invocation began.
C15_HaltedFalseAtHandlerStart ==
  /\ [][HandlerStarts => (~isHalted' /\ isRunning')]_vars
  /\ [][(~isHalted /\ isHalted') => HaltCalled]_vars

\* execute() has accepted a registered command while the flag raised at the
\* idle prompt is still up: the dispatch is the next step
C15_Witness ==
  /\ execPc = "dispatch" /\ isHalted /\ ~isRunning
  /\ TokenRegistered(execInput)

\* ---------------------------------------------------- suggestion, any registry
\* definitions a registry may hold: arguments out of order, a name that is
\* a prefix of another, an upper-case letter, no arguments
DefinitionPool ==
  { [name |-> abc, availableArguments |-> << <<"a">> >>],
    [name |-> dfg, availableArguments |-> <<>>],
    [name |-> <<"a", "b">>,
     availableArguments |-> << <<"c", "z">>, <<"c", "b">> >>],
    [name |-> <<"a", "B">>, availableArguments |-> <<>>],
    [name |-> <<"a">>, availableArguments |-> << <<"b">> >>] }

CommandSets == UNION { [1..n -> DefinitionPool] : n \in 0..MaxCommands }

SuggestInputs ==
  { <<>>, <<" ">>, <<"a">>, <<"a", "b">>, <<" ", "a", "b", " ">>,
    <<"a", "b", " ", "c">>, <<"a", " ">>, abc \o <<" ">>, <<"d">>, zzz }

InitSuggest == commands \in CommandSets /\ InitSession

NextSuggest ==
  \/ \E input \in SuggestInputs : setInput(input)
  \/ autocompleteSuggestion

SpecSuggest == InitSuggest /\ [][NextSuggest]_vars

\* every command name, and "<name> <argument>" for each available argument
Vocabulary ==
  { commands[i].name : i \in 1..Len(commands) }
    \cup UNION { { commands[i].name \o <<" ">>
                     \o commands[i].availableArguments[k] :
                   k \in 1..Len(commands[i].availableArguments) } :
                 i \in 1..Len(commands) }

HasPrefix(s, p) == Len(p) <= Len(s) /\ \A k \in 1..Len(p) : s[k] = p[k]

\* s comes before t in the order of the code units
Precedes(s, t) ==
  \E k \in 0..Len(s) :
    /\ k <= Len(t)
    /\ \A j \in 1..k : s[j] = t[j]
    /\ IF k = Len(s) THEN k < Len(t)
       ELSE k < Len(t) /\ CharCode[s[k + 1]] < CharCode[t[k + 1]]

Matching(text) == { c \in Vocabulary : HasPrefix(c, text) }

\* C16: for every command set and every input, suggestion is "" when the
\* trimmed input is empty or no candidate starts with it, and otherwise
\* the smallest string of the vocabulary, in code-unit order, that starts
\* with the trimmed input; with exactly one such candidate it is that one.
C16_SuggestionIsSmallestMatch ==
  LET text == Trimmed(inputText)
      found == suggestion(inputText)
  IN  /\ (text = <<>> \/ Matching(text) = {}) => found = <<>>
      /\ (text # <<>> /\ Matching(text) # {}) =>
           /\ found \in Matching(text)
           /\ \A c \in Matching(text) \ {found} : Precedes(found, c)
      /\ (text # <<>> /\ Cardinality(Matching(text)) = 1) =>
           Matching(text) = {found}

\* the completion of "ab c" is "ab cb", the second argument of the only
\* definition, ahead of "ab cz"
C16_Witness ==
  /\ commands = << [name |-> <<"a", "b">>,
                    availableArguments |-> << <<"c", "z">>, <<"c", "b">> >>] >>
  /\ lastOp = "autocompleteSuggestion"
  /\ inputText = <<"a", "b", " ", "c", "b">>

AutocompleteCalled == lastOp' = "autocompleteSuggestion"

\* C17: autocompleteSuggestion is idempotent: a second call right after a
\* first leaves the input as the first left it, the suggestion being the
\* input by then; with an empty suggestion the call changes nothing; and no
\* call changes historyIndex, historyEntries, messages or the flags.
C17_AutocompleteIdempotent ==
  /\ [][(AutocompleteCalled /\ lastOp = "autocompleteSuggestion")
        => inputText' = inputText]_vars
  /\ [][AutocompleteCalled =>
          (inputText' # inputText => suggestion(inputText') = inputText')]_vars
  /\ [][(AutocompleteCalled /\ suggestion(inputText) = <<>>)
        => UNCHANGED <<inputText, jobs>>]_vars
  /\ [][AutocompleteCalled =>
          UNCHANGED <<historyIndex, historyEntries, messages, isRunning,
                      isHalted>>]_vars

\* a call that left "abc", its own suggestion, in the input, while a
\* command is running and the history is browsed
C17_Witness ==
  /\ lastOp = "autocompleteSuggestion"
  /\ inputText = abc /\ suggestion(inputText) = abc
  /\ isRunning /\ historyIndex = 0 /\ jobs = {"historyEffect"}

\* the submitted text is non-empty and is not the most recent entry
IsNewEntry(text) ==
  text # <<>> /\ (historyEntries = <<>> \/ text # historyEntries[1])

\* C18: an accepted execute() prepends the trimmed input to historyEntries
\* exactly when that text is non-empty and differs from the most recent
\* entry, whether or not the command is registered or its handler faults;
\* otherwise, and in every other operation, historyEntries is unchanged; so
\* the first entry is the most recent accepted non-empty submission.
C18_HistoryAppendRule ==
  /\ [][(ExecuteAcceptedCall /\ IsNewEntry(Trimmed(inputText)))
        => historyEntries' = <<Trimmed(inputText)>> \o historyEntries]_vars
  /\ [][(ExecuteAcceptedCall /\ ~IsNewEntry(Trimmed(inputText)))
        => historyEntries' = historyEntries]_vars
  /\ [][~ExecuteAcceptedCall => historyEntries' = historyEntries]_vars
  /\ [][(ExecuteAcceptedCall /\ Trimmed(inputText) # <<>>)
        => historyEntries'[1] = Trimmed(inputText)]_vars

\* "abc" and then the unregistered "zzz" are both in the history, the
\* later one first
C18_Witness ==
  /\ lastOp = "commandNotFound"
  /\ historyEntries = <<zzz, abc>>

\* the step is a navigation call that moves the cursor
NavigationMoves ==
  (PreviousCalled \/ NextCalled) /\ historyIndex' # historyIndex

\* C19: the input-buffer mutation triggered by navigation is synchronous:
\* directly after a navigation call that changed the index, inputText
\* equals historyEntries[historyIndex], or "" at -1.
C19_NavigationSynchronous ==
  [][NavigationMoves =>
       inputText' = ShownEntry(historyEntries', historyIndex')]_vars

\* C19, amended: the navigation call changes historyIndex synchronously
\* and leaves inputText as it was, with the history effect queued; the
\* input takes the entry's text when the scheduler runs the effect, and a
\* flush without a queued effect leaves it alone.
C19_NavigationDeferred ==
  /\ [][NavigationMoves =>
          (inputText' = inputText /\ "historyEffect" \in jobs')]_vars
  /\ [][lastOp' = "flushJobs" =>
          inputText' = (IF "historyEffect" \in jobs
                        THEN ShownEntry(historyEntries, historyIndex)
                        ELSE inputText)]_vars

\* the cursor is on "abc" and the input still holds the typed "zzz"
C19_Witness ==
  /\ lastOp = "navigateToPreviousEntry"
  /\ historyEntries = <<abc>> /\ historyIndex = 0
  /\ inputText = zzz
  /\ "historyEffect" \in jobs

\* the operations through which the input is said to change
InputWritingCalls ==
  {"setInput", "autocompleteSuggestion", "execute", "executeDropped",
   "navigateToPreviousEntry", "navigateToNextEntry"}

\* C20: inputText changes only through setInput, autocompleteSuggestion,
\* an accepted execute() or a navigation call that changes historyIndex:
\* after setInput(t) the input is t and stays t until one of those
\* operations is called next, also right after an execute() or while a
\* handler is in flight.
C20_InputStaysAsSet ==
  /\ [][lastOp' = "setInput" => inputText' \in InputLines]_vars
  /\ [][(lastOp = "setInput" /\ lastOp' \notin InputWritingCalls)
        => inputText' = inputText]_vars

\* C21: cancellation is cooperative only.  isRunning goes from true to
\* false only in the step in which the handler in flight completes (it
\* throws, or execute() resumes after its return), never in a
\* haltExecution() call; as long as that step has not happened a handler is
\* in flight, isRunning stays true and every execute() is dropped, however
\* often haltExecution() is called.
C21_CooperativeCancellation ==
  /\ [](isRunning => Len(handlers) = 1)
  /\ [][(isRunning /\ ~isRunning') =>
          (HandlerCompleted /\ Len(handlers') = Len(handlers) - 1)]_vars
  /\ [][(isRunning /\ ~HandlerCompleted) => isRunning']_vars
  /\ [][(isRunning /\ HaltCalled) =>
          (isRunning' /\ handlers' = handlers)]_vars
  /\ [][(isRunning /\ ExecuteCalled) =>
          (/\ lastOp' = "executeDropped"
           /\ UNCHANGED <<messages, historyEntries, historyIndex,
                          inputText, handlers, isRunning>>)]_vars

\* a line was submitted and dropped after a halt that the pending handler
\* has not honoured
C21_Witness ==
  /\ lastOp = "executeDropped"
  /\ isRunning /\ isHalted
  /\ Len(handlers) = 1 /\ handlers[1].phase = "async"
  /\ inputText = zzz

\* ------------------------------------------------------ parsing, any spacing
\* lines with one space, several spaces and a tab between the words
ParseLines ==
  { abc, abc \o <<" ", "a">>, abc \o <<" ", " ", "a">>,
    abc \o <<"\t", "a">>, <<" ">> \o abc \o <<" ", "a", " ", "b", " ">>,
    dfg \o <<" ", "a", " ", " ", "b">>, zzz \o <<" ", "a">> }

NextParse ==
  \/ \E input \in ParseLines : setInput(input)
  \/ execute
  \/ executeDispatch
  \/ \E i \in 1..Len(handlers) : clearMessages(i)
  \/ \E i \in 1..Len(handlers) : handlerReturn(i)
  \/ \E i \in 1..Len(handlers) : executeFinally(i)

SpecParse == Init /\ [][NextParse]_vars

\* the white-space-delimited tokens of a line, in order
RECURSIVE WhitespaceTokens(_)
WhitespaceTokens(line) ==
  IF line = <<>> THEN <<>>
  ELSE IF IsWhitespace(Head(line)) THEN WhitespaceTokens(Tail(line))
  ELSE LET stops == { k \in 1..Len(line) : IsWhitespace(line[k]) }
           n == IF stops = {} THEN Len(line)
                ELSE (CHOOSE k \in stops : \A j \in stops : k <= j) - 1
       IN  <<SubSeq(line, 1, n)>>
             \o WhitespaceTokens(SubSeq(line, n + 1, Len(line)))

\* C22: for every trimmed non-empty line the command token is the text up
\* to the first white-space character and the arguments passed to the
\* handler are the remaining white-space-delimited tokens in order: several
\* spaces or a tab between words give no empty argument and do not become
\* part of the command token.
C22_WhitespaceDelimitedTokens ==
  [][(execPc = "dispatch" /\ lastOp' \in {"dispatch", "commandNotFound"}) =>
       LET tokens == WhitespaceTokens(execInput) IN
       IF Registered(Head(tokens))
       THEN /\ HandlerStarts
            /\ commands[handlers'[Len(handlers')].def].name = Head(tokens)
            /\ handlers'[Len(handlers')].args = Tail(tokens)
       ELSE lastOp' = "commandNotFound"]_vars

\* the step assigns messages.value
TranscriptMutated == messages' # messages \/ lastOp' = "clearMessages"

\* the onOutputAppended call is queued
NotificationPending == "messagesWatch" \in jobs

\* C23: every transcript mutation is followed by one invocation of the
\* onOutputAppended callback, delivered before any further transcript
\* mutation takes place.
C23_NotifiedBeforeNextMutation ==
  [][TranscriptMutated => ~NotificationPending]_vars

\* C23, amended: every transcript mutation queues the notification, which
\* stays queued until the scheduler's flush and is delivered there, once
\* for all the mutations made since the flush before; the notification is
\* queued by a transcript mutation only, and the flush leaves the
\* transcript alone.
C23_NotifiedAtFlush ==
  /\ [][TranscriptMutated => NotificationPending']_vars
  /\ [][(NotificationPending /\ lastOp' # "flushJobs")
        => NotificationPending']_vars
  /\ [][lastOp' = "flushJobs" =>
          (~NotificationPending' /\ messages' = messages)]_vars
  /\ [][(~NotificationPending /\ NotificationPending')
        => TranscriptMutated]_vars

\* the echo of "zzz" and the report that follows it in the same run of
\* execute() wait for one notification
C23_Witness ==
  /\ lastOp = "commandNotFound"
  /\ Len(messages) = 2 /\ messages[1] = InputMessage(zzz)
  /\ messages[2].type = "output"
  /\ jobs = {"messagesWatch", "historyEffect"}

\* the step is a call of the handler on its execution context
ContextCalled == lastOp' \in {"appendOutput", "clearMessages"}

\* C24: while a handler is in flight setInput, autocompleteSuggestion and
\* the history navigation act on inputText and historyIndex as they do at
\* an idle prompt; appendOutput and clearMessages change messages only;
\* the completion of the handler changes isRunning only, so an isHalted
\* raised during the run is still true after it.
C24_ResponsiveWhileRunning ==
  /\ [][(isRunning /\ lastOp' = "setInput") =>
          (/\ inputText' \in InputLines
           /\ UNCHANGED <<historyIndex, historyEntries, messages,
                          isRunning, isHalted>>)]_vars
  /\ [][(isRunning /\ AutocompleteCalled) =>
          (/\ inputText' = (LET found == suggestion(inputText)
                            IN  IF found # <<>> THEN found ELSE inputText)
           /\ UNCHANGED historyIndex)]_vars
  /\ [][(isRunning /\ PreviousCalled) =>
          (/\ historyIndex' = (IF historyIndex < Len(historyEntries) - 1
                               THEN historyIndex + 1 ELSE historyIndex)
           /\ UNCHANGED inputText)]_vars
  /\ [][(isRunning /\ NextCalled) =>
          (/\ historyIndex' = (IF historyIndex > -1
                               THEN historyIndex - 1 ELSE historyIndex)
           /\ UNCHANGED inputText)]_vars
  /\ [][ContextCalled =>
          UNCHANGED <<inputText, historyEntries, historyIndex, isRunning,
                      isHalted>>]_vars
  /\ [][HandlerCompleted =>
          (/\ isRunning /\ ~isRunning'
           /\ UNCHANGED <<inputText, historyEntries, historyIndex, messages,
                          isHalted>>)]_vars

\* the handler has completed after a halt; the line typed and the entry
\* browsed to during the run are in place
C24_Witness ==
  /\ lastOp = "executeFinally"
  /\ ~isRunning /\ isHalted
  /\ inputText = zzz /\ historyIndex = 0
  /\ Len(messages) = 2 /\ messages[2].type = "output"

====
